---------------------------- MODULE Spec2Model ----------------------------
(***************************************************************************)
(* A model of sequelize-pg-generator (src/index.js): one run of generate() *)
(* against the catalog rows an introspected PostgreSQL schema returns.     *)
(*                                                                         *)
(* JavaScript strings are sequences of one-character strings, so that the  *)
(* regular expressions, case conversions and templates of the source are   *)
(* computed on characters.  null and undefined are the one-element         *)
(* sequences NULL and UNDEFINED, whose element is no character.            *)
(***************************************************************************)
EXTENDS Integers, Sequences, FiniteSets, TLC

(***************************************************************************)
(* String literals of the source and of the catalog.                       *)
(***************************************************************************)
Str_integer == <<"i","n","t","e","g","e","r">>
Str_smallint == <<"s","m","a","l","l","i","n","t">>
Str_numeric == <<"n","u","m","e","r","i","c">>
Str_character_varying == <<"c","h","a","r","a","c","t","e","r"," ","v","a","r","y","i","n","g">>
Str_character == <<"c","h","a","r","a","c","t","e","r">>
Str_date == <<"d","a","t","e">>
Str_timestamp_with_time_zone == <<"t","i","m","e","s","t","a","m","p"," ","w","i","t","h"," ","t","i","m","e"," ","z","o","n","e">>
Str_jsonb == <<"j","s","o","n","b">>
Str_json == <<"j","s","o","n">>
Str_boolean == <<"b","o","o","l","e","a","n">>
Str_USER_DEFINED == <<"U","S","E","R","-","D","E","F","I","N","E","D">>
Str_text == <<"t","e","x","t">>
Str_ARRAY == <<"A","R","R","A","Y">>
Str_INTEGER == <<"I","N","T","E","G","E","R">>
Str_DOUBLE == <<"D","O","U","B","L","E">>
Str_DATEONLY == <<"D","A","T","E","O","N","L","Y">>
Str_DATE == <<"D","A","T","E">>
Str_JSONB == <<"J","S","O","N","B">>
Str_JSON == <<"J","S","O","N">>
Str_BOOLEAN == <<"B","O","O","L","E","A","N">>
Str_TEXT == <<"T","E","X","T">>
Str_number == <<"n","u","m","b","e","r">>
Str_string == <<"s","t","r","i","n","g">>
Str_Date == <<"D","a","t","e">>
Str_Object == <<"O","b","j","e","c","t">>
Str_any == <<"a","n","y">>
Str_Array == <<"A","r","r","a","y">>
Str_null == <<"n","u","l","l">>
Str_false == <<"f","a","l","s","e">>
Str_now == <<"n","o","w","(",")">>
Str_DataTypes_NOW == <<"D","a","t","a","T","y","p","e","s",".","N","O","W">>
Str_nextval == <<"n","e","x","t","v","a","l","(">>
Str_cast_character_varying == <<":",":","c","h","a","r","a","c","t","e","r"," ","v","a","r","y","i","n","g">>
Str_cast_jsonb == <<":",":","j","s","o","n","b">>
Str_cast == <<":",":">>
Str_brackets == <<"[","]">>
Str_STRING_open == <<"S","T","R","I","N","G","(">>
Str_CHAR_open == <<"C","H","A","R","(">>
Str_ENUM_open == <<"E","N","U","M","(","'">>
Str_ENUM_sep == <<"'",","," ","'">>
Str_ENUM_close == <<"'",")">>
Str_ARRAY_open == <<"A","R","R","A","Y","(","D","a","t","a","T","y","p","e","s",".">>
Str_close == <<")">>
Str_user_defined_type == <<"u","s","e","r"," ","d","e","f","i","n","e","d"," ","t","y","p","e",":"," ">>
Str_Unhandled == <<"U","n","h","a","n","d","l","e","d"," ","d","a","t","a"," ","t","y","p","e",":"," ">>
Str_undefined == <<"u","n","d","e","f","i","n","e","d">>
Str_uuid == <<"u","u","i","d">>
Str_bigint == <<"b","i","g","i","n","t">>
Str_mood == <<"m","o","o","d">>

(***************************************************************************)
(* JavaScript values.                                                      *)
(***************************************************************************)
NULL == <<"<null>">>
UNDEFINED == <<"<undefined>">>

IsString(v) == v # NULL /\ v # UNDEFINED

\* ToBoolean of a string-or-null value: null, undefined and "" are falsy.
Truthy(v) == IsString(v) /\ v # <<>>

\* ToString of a string-or-null value, as RegExp.prototype.exec and template
\* literals apply it.
ToStr(v) == IF v = NULL THEN Str_null ELSE IF v = UNDEFINED THEN Str_undefined ELSE v

\* The values defaultValue takes: null, a string, a boolean, a number or NaN.
JsNull == [kind |-> "null"]
JsString(s) == [kind |-> "string", value |-> s]
JsBoolean(b) == [kind |-> "boolean", value |-> b]
JsNumber(n) == [kind |-> "number", value |-> n]
JsNaN == [kind |-> "NaN"]

StartsWith(s, p) == Len(s) >= Len(p) /\ SubSeq(s, 1, Len(p)) = p
EndsWith(s, p) == Len(s) >= Len(p) /\ SubSeq(s, Len(s) - Len(p) + 1, Len(s)) = p

SetMin(S) == CHOOSE x \in S : \A y \in S : x <= y

LowerLetters == <<"a","b","c","d","e","f","g","h","i","j","k","l","m",
                  "n","o","p","q","r","s","t","u","v","w","x","y","z">>
UpperLetters == <<"A","B","C","D","E","F","G","H","I","J","K","L","M",
                  "N","O","P","Q","R","S","T","U","V","W","X","Y","Z">>
DecimalDigits == <<"0","1","2","3","4","5","6","7","8","9">>

IndexIn(c, chars) == IF \E i \in DOMAIN chars : chars[i] = c
                     THEN CHOOSE i \in DOMAIN chars : chars[i] = c
                     ELSE 0

IsLetter(c) == IndexIn(c, LowerLetters) # 0 \/ IndexIn(c, UpperLetters) # 0

\* String.prototype.toUpperCase / toLowerCase on one character.
toUpperCase(c) == IF IndexIn(c, LowerLetters) # 0 THEN UpperLetters[IndexIn(c, LowerLetters)] ELSE c
toLowerCase(c) == IF IndexIn(c, UpperLetters) # 0 THEN LowerLetters[IndexIn(c, UpperLetters)] ELSE c

\* Number.prototype.toString of a natural number.
RECURSIVE NumToStr(_)
NumToStr(n) == IF n < 10 THEN <<DecimalDigits[n + 1]>>
               ELSE NumToStr(n \div 10) \o <<DecimalDigits[(n % 10) + 1]>>

\* Array.prototype.join.
RECURSIVE Join(_, _)
Join(parts, sep) == IF Len(parts) = 0 THEN <<>>
                    ELSE IF Len(parts) = 1 THEN parts[1]
                    ELSE parts[1] \o sep \o Join(Tail(parts), sep)

\* String.prototype.split on a one-character separator, scanning from `from`
\* with the current piece starting at `start`.
RECURSIVE SplitFrom(_, _, _, _)
SplitFrom(s, sep, start, from) ==
    IF from > Len(s) THEN <<SubSeq(s, start, Len(s))>>
    ELSE IF s[from] = sep
         THEN <<SubSeq(s, start, from - 1)>> \o SplitFrom(s, sep, from + 1, from + 1)
         ELSE SplitFrom(s, sep, start, from + 1)

Split(s, sep) == SplitFrom(s, sep, 1, 1)

\* String.prototype.substring(a, b) for 0 <= a and any b (indices are zero-based,
\* clamped to the length, and swapped when a > b).
Substring(s, a, b) ==
    LET clamp(x) == IF x < 0 THEN 0 ELSE IF x > Len(s) THEN Len(s) ELSE x
        lo == IF clamp(a) <= clamp(b) THEN clamp(a) ELSE clamp(b)
        hi == IF clamp(a) <= clamp(b) THEN clamp(b) ELSE clamp(a)
    IN  SubSeq(s, lo + 1, hi)

\* JSON.stringify of a string: quoted, with the quote and the backslash escaped.
RECURSIVE JsonEscape(_)
JsonEscape(s) == IF s = <<>> THEN <<>>
                 ELSE (IF s[1] = "\"" \/ s[1] = "\\" THEN <<"\\", s[1]>> ELSE <<s[1]>>)
                      \o JsonEscape(Tail(s))

JSONstringify(s) == <<"\"">> \o JsonEscape(s) \o <<"\"">>

(***************************************************************************)
(* toCamelCase, toPascalCase                                               *)
(***************************************************************************)
\* value.replace(/_([a-zA-Z])/g, (_, c) => c.toUpperCase()), from index i on.
RECURSIVE CamelFrom(_, _)
CamelFrom(value, i) ==
    IF i > Len(value) THEN <<>>
    ELSE IF value[i] = "_" /\ i < Len(value) /\ IsLetter(value[i + 1])
         THEN <<toUpperCase(value[i + 1])>> \o CamelFrom(value, i + 2)
         ELSE <<value[i]>> \o CamelFrom(value, i + 1)

toCamelCase(value) == CamelFrom(value, 1)

toPascalCase(value) ==
    LET camelCase == toCamelCase(value)
    IN  IF camelCase = <<>> THEN <<>>
        ELSE <<toUpperCase(camelCase[1])>> \o Tail(camelCase)

(***************************************************************************)
(* Regular expressions of the default-value chain.  exec returns the first *)
(* capture group, or NULL when the text does not match.  No line breaks    *)
(* occur in the texts, so "." matches every character.                     *)
(***************************************************************************)
\* /^'(.*)'(?:::character varying)?$/.exec(input)
execQuotedLiteral(input) ==
    LET s == ToStr(input)
        n == Len(s)
        m == Len(Str_cast_character_varying)
    IN  IF n >= 2 /\ s[1] = "'" /\ s[n] = "'"
        THEN SubSeq(s, 2, n - 1)
        ELSE IF n >= m + 2 /\ s[1] = "'" /\ EndsWith(s, <<"'">> \o Str_cast_character_varying)
             THEN SubSeq(s, 2, n - m - 1)
             ELSE NULL

\* new RegExp(`'(.+)'::${typeName}$`).exec(input), for a typeName without
\* regular-expression metacharacters: the leftmost quote that leaves at least one
\* character before the closing quote of the cast ending the text.
execQuotedCast(input, typeName) ==
    LET s == ToStr(input)
        suffix == <<"'">> \o Str_cast \o typeName
        closing == Len(s) - Len(suffix) + 1
        opening == {i \in 1..(closing - 2) : s[i] = "'"}
    IN  IF EndsWith(s, suffix) /\ opening # {}
        THEN SubSeq(s, SetMin(opening) + 1, closing - 1)
        ELSE NULL

(***************************************************************************)
(* parseInt(string): leading white space, an optional sign, then the       *)
(* longest run of digits (hexadecimal after a 0x prefix); NaN without one. *)
(***************************************************************************)
WhiteSpace == {" ", "\t", "\n"}
HexDigits == <<"0","1","2","3","4","5","6","7","8","9","a","b","c","d","e","f">>

DigitValue(c, radix) ==
    IF IndexIn(toLowerCase(c), HexDigits) >= 1 /\ IndexIn(toLowerCase(c), HexDigits) <= radix
    THEN IndexIn(toLowerCase(c), HexDigits) - 1
    ELSE -1

RECURSIVE SkipWhiteSpace(_, _)
SkipWhiteSpace(s, i) ==
    IF i <= Len(s) /\ s[i] \in WhiteSpace THEN SkipWhiteSpace(s, i + 1) ELSE i

RECURSIVE ParseDigits(_, _, _, _)
ParseDigits(s, i, radix, acc) ==
    IF i <= Len(s) /\ DigitValue(s[i], radix) >= 0
    THEN ParseDigits(s, i + 1, radix, acc * radix + DigitValue(s[i], radix))
    ELSE acc

\* The digits from index i on, in the given radix.
parseDigitsAt(s, sign, radix, i) ==
    IF i <= Len(s) /\ DigitValue(s[i], radix) >= 0
    THEN JsNumber(sign * ParseDigits(s, i, radix, 0))
    ELSE JsNaN

\* After the sign: a 0x or 0X prefix makes the digits hexadecimal.
parseUnsignedAt(s, sign, i) ==
    IF i + 1 <= Len(s) /\ s[i] = "0" /\ s[i + 1] \in {"x", "X"}
    THEN parseDigitsAt(s, sign, 16, i + 2)
    ELSE parseDigitsAt(s, sign, 10, i)

\* After the white space: an optional sign.
parseSignedAt(s, i) ==
    IF i <= Len(s) /\ s[i] = "-" THEN parseUnsignedAt(s, -1, i + 1)
    ELSE IF i <= Len(s) /\ s[i] = "+" THEN parseUnsignedAt(s, 1, i + 1)
    ELSE parseUnsignedAt(s, 1, i)

parseInt(input) == parseSignedAt(ToStr(input), SkipWhiteSpace(ToStr(input), 1))

(***************************************************************************)
(* getColumnType                                                           *)
(***************************************************************************)
TypeData(dataType, docType, comment, tsType) ==
    [threw |-> FALSE, dataType |-> dataType, docType |-> docType,
     comment |-> comment, tsType |-> tsType]

\* A thrown error: new Error(message), or the engine's TypeError.
Thrown(name, message) == [threw |-> TRUE, name |-> name, message |-> message]
NoError == [threw |-> FALSE]

\* The message of a TypeError is the engine's, not the program's.
EngineMessage == <<"<engine message>">>

\* {data_type: ...}: the row getColumnType hands itself for an array's elements.
ElementRow(dataType) ==
    [data_type |-> dataType, character_maximum_length |-> 0,
     udt_name |-> UNDEFINED, enum_values |-> UNDEFINED]

\* row.udt_name.replace(/\[]$/, '')
\* Variant of stripBrackets that leaves the [] on the element type name.
stripBrackets_Keep(name) == name

stripBrackets(name) ==
    IF EndsWith(name, Str_brackets) THEN SubSeq(name, 1, Len(name) - 2) ELSE name

\* `${row.character_maximum_length || 'null'}`; 0 stands for every falsy length
\* (null, undefined, 0), which the source does not tell apart.
maxLengthText(row) ==
    IF row.character_maximum_length = 0 THEN Str_null
    ELSE NumToStr(row.character_maximum_length)

RECURSIVE getColumnType(_)
getColumnType(row) ==
    LET t == row.data_type
    IN  IF t \in {Str_integer, Str_smallint}
        THEN TypeData(Str_INTEGER, Str_number, NULL, Str_number)
        ELSE IF t = Str_numeric
        THEN TypeData(Str_DOUBLE, Str_number, NULL, Str_number)
        ELSE IF t = Str_character_varying
        THEN TypeData(Str_STRING_open \o maxLengthText(row) \o Str_close,
                      Str_string, NULL, Str_string)
        ELSE IF t = Str_character
        THEN TypeData(Str_CHAR_open \o maxLengthText(row) \o Str_close,
                      Str_string, NULL, Str_string)
        ELSE IF t = Str_date
        THEN TypeData(Str_DATEONLY, Str_Date, NULL, Str_Date)
        ELSE IF t = Str_timestamp_with_time_zone
        THEN TypeData(Str_DATE, Str_Date, NULL, Str_Date)
        ELSE IF t = Str_jsonb
        THEN TypeData(Str_JSONB, Str_Object, NULL, Str_any)
        ELSE IF t = Str_json
        THEN TypeData(Str_JSON, Str_Object, NULL, Str_any)
        ELSE IF t = Str_boolean
        THEN TypeData(Str_BOOLEAN, Str_boolean, NULL, Str_boolean)
        ELSE IF t = Str_USER_DEFINED
        THEN IF ~IsString(row.enum_values)
             THEN Thrown("TypeError", EngineMessage)
             ELSE LET values == Split(Substring(row.enum_values, 1,
                                                Len(row.enum_values) - 1), ",")
                  IN  TypeData(Str_ENUM_open \o Join(values, Str_ENUM_sep) \o Str_ENUM_close,
                               Str_string,
                               Str_user_defined_type \o ToStr(row.udt_name),
                               Str_string)
        ELSE IF t = Str_text
        THEN TypeData(Str_TEXT, Str_string, NULL, Str_string)
        ELSE IF t = Str_ARRAY
        THEN IF ~IsString(row.udt_name)
             THEN Thrown("TypeError", EngineMessage)
             ELSE LET innerArrayType == getColumnType(ElementRow(stripBrackets(row.udt_name)))
                  IN  IF innerArrayType.threw THEN innerArrayType
                      ELSE TypeData(Str_ARRAY_open \o innerArrayType.dataType \o Str_close,
                                    Str_Array,
                                    row.udt_name,
                                    innerArrayType.tsType \o Str_brackets)
        ELSE Thrown("Error", Str_Unhandled \o ToStr(t))

(***************************************************************************)
(* generateTableDefinition: one column                                     *)
(***************************************************************************)
Resolved(defaultValue, isAutoIncrement) ==
    [defaultValue |-> defaultValue, isAutoIncrement |-> isAutoIncrement]

\* Variant of typedDefault whose BOOLEAN branch yields true for the text "true"
\* only.
typedDefault_TrueOnly(row, dataType) ==
    IF Truthy(row.column_default) /\ dataType = Str_BOOLEAN
    THEN Resolved(JsBoolean(row.column_default = <<"t","r","u","e">>), FALSE)
    ELSE IF Truthy(row.column_default) /\ dataType = Str_INTEGER
    THEN Resolved(parseInt(row.column_default), FALSE)
    ELSE IF Truthy(row.column_default) /\ row.data_type = Str_ARRAY
    THEN Resolved(JsString(Str_brackets), FALSE)
    ELSE IF row.data_type = Str_USER_DEFINED
            /\ execQuotedCast(row.column_default, ToStr(row.udt_name)) # NULL
    THEN Resolved(JsString(JSONstringify(
             execQuotedCast(row.column_default, ToStr(row.udt_name)))), FALSE)
    ELSE Resolved(JsNull, FALSE)

\* Variant of typedDefault whose number branch takes DOUBLE as well as INTEGER.
typedDefault_AnyNumber(row, dataType) ==
    IF Truthy(row.column_default) /\ dataType = Str_BOOLEAN
    THEN Resolved(JsBoolean(row.column_default # Str_false), FALSE)
    ELSE IF Truthy(row.column_default) /\ dataType \in {Str_INTEGER, Str_DOUBLE}
    THEN Resolved(parseInt(row.column_default), FALSE)
    ELSE IF Truthy(row.column_default) /\ row.data_type = Str_ARRAY
    THEN Resolved(JsString(Str_brackets), FALSE)
    ELSE IF row.data_type = Str_USER_DEFINED
            /\ execQuotedCast(row.column_default, ToStr(row.udt_name)) # NULL
    THEN Resolved(JsString(JSONstringify(
             execQuotedCast(row.column_default, ToStr(row.udt_name)))), FALSE)
    ELSE Resolved(JsNull, FALSE)

\* The branches of the if / else-if chain after the nextval test: the defaults
\* that depend on the type of the column.
typedDefault(row, dataType) ==
    IF Truthy(row.column_default) /\ dataType = Str_BOOLEAN
    THEN Resolved(JsBoolean(row.column_default # Str_false), FALSE)
    ELSE IF Truthy(row.column_default) /\ dataType = Str_INTEGER
    THEN Resolved(parseInt(row.column_default), FALSE)
    ELSE IF Truthy(row.column_default) /\ row.data_type = Str_ARRAY
    THEN Resolved(JsString(Str_brackets), FALSE)
    ELSE IF row.data_type = Str_USER_DEFINED
            /\ execQuotedCast(row.column_default, ToStr(row.udt_name)) # NULL
    THEN Resolved(JsString(JSONstringify(
             execQuotedCast(row.column_default, ToStr(row.udt_name)))), FALSE)
    ELSE Resolved(JsNull, FALSE)

\* Variant of the chain that tests for nextval( after the branches that depend
\* on the type, so a literal parsed from the text wins over the sequence.
defaultValueChain_NextvalLast(row, dataType) ==
    IF execQuotedLiteral(row.column_default) # NULL
    THEN Resolved(JsString(JSONstringify(execQuotedLiteral(row.column_default))), FALSE)
    ELSE IF execQuotedCast(row.column_default, Str_jsonb) # NULL
    THEN Resolved(JsString(execQuotedCast(row.column_default, Str_jsonb)), FALSE)
    ELSE IF row.column_default = Str_now
    THEN Resolved(JsString(Str_DataTypes_NOW), FALSE)
    ELSE IF typedDefault(row, dataType).defaultValue.kind # "null"
    THEN typedDefault(row, dataType)
    ELSE Resolved(JsNull, StartsWith(ToStr(row.column_default), Str_nextval))

\* Variant of the chain whose nextval( branch sets isAutoIncrement and still
\* lets the type-dependent branches set defaultValue.
defaultValueChain_NextvalKeepsDefault(row, dataType) ==
    IF execQuotedLiteral(row.column_default) # NULL
    THEN Resolved(JsString(JSONstringify(execQuotedLiteral(row.column_default))), FALSE)
    ELSE IF execQuotedCast(row.column_default, Str_jsonb) # NULL
    THEN Resolved(JsString(execQuotedCast(row.column_default, Str_jsonb)), FALSE)
    ELSE IF row.column_default = Str_now
    THEN Resolved(JsString(Str_DataTypes_NOW), FALSE)
    ELSE Resolved(typedDefault(row, dataType).defaultValue,
                  StartsWith(ToStr(row.column_default), Str_nextval))

\* The if / else-if chain that sets defaultValue and isAutoIncrement.
defaultValueChain(row, dataType) ==
    IF execQuotedLiteral(row.column_default) # NULL
    THEN Resolved(JsString(JSONstringify(execQuotedLiteral(row.column_default))), FALSE)
    ELSE IF execQuotedCast(row.column_default, Str_jsonb) # NULL
    THEN Resolved(JsString(execQuotedCast(row.column_default, Str_jsonb)), FALSE)
    ELSE IF row.column_default = Str_now
    THEN Resolved(JsString(Str_DataTypes_NOW), FALSE)
    ELSE IF StartsWith(ToStr(row.column_default), Str_nextval)
    THEN Resolved(JsNull, TRUE)
    ELSE typedDefault(row, dataType)

\* What the callback of rows.map returns and pushes for a column of type
\* dataTypeData whose default resolved to `resolved`.
columnOf(row, program, dataTypeData, resolved) ==
    LET dataType == dataTypeData.dataType
        dataTypeComment == IF Truthy(dataTypeData.comment)
                           THEN dataTypeData.comment ELSE row.data_type
        allowNull == row.is_nullable = "YES"
        isPrimaryKey == "PRIMARY KEY" \in row.keys
        defaultValue == resolved.defaultValue
        isAutoIncrement == resolved.isAutoIncrement
        columnName == IF program.camelCase THEN toCamelCase(row.column_name)
                      ELSE row.column_name
        fieldName == row.column_name
        lines == << [key |-> "field", value |-> fieldName],
                    [key |-> "type", value |-> dataType, comment |-> dataTypeComment],
                    [key |-> "primaryKey", value |-> isPrimaryKey],
                    [key |-> "allowNull", value |-> allowNull],
                    [key |-> "autoIncrement", value |-> isAutoIncrement] >>
                 \o (IF defaultValue.kind # "null"
                     THEN << [key |-> "defaultValue", value |-> defaultValue] >>
                     ELSE << >>)
    IN  [result |-> "column",
         code |-> [name |-> columnName, lines |-> lines],
         propDoc |-> [name |-> columnName, type |-> dataTypeData.docType],
         columnData |-> [name |-> columnName,
                         field |-> fieldName,
                         typeData |-> dataTypeData,
                         typeComment |-> dataTypeComment,
                         isPrimaryKey |-> isPrimaryKey,
                         allowNull |-> allowNull,
                         autoIncrement |-> isAutoIncrement,
                         defaultValue |-> defaultValue]]

\* A variant of columnOfType that drops a column of an unknown type instead of
\* letting the throw of getColumnType leave the callback.
columnOfType_SkipUnknown(row, program, dataTypeData) ==
    IF dataTypeData.threw
    THEN [result |-> "null"]
    ELSE columnOf(row, program, dataTypeData, defaultValueChain(row, dataTypeData.dataType))

\* The callback from `const dataTypeData = getColumnType(row)` on: the throw of
\* getColumnType leaves it, and the default-value chain follows otherwise.
columnOfType(row, program, dataTypeData) ==
    IF dataTypeData.threw
    THEN [result |-> "throw", error |-> dataTypeData]
    ELSE columnOf(row, program, dataTypeData, defaultValueChain(row, dataTypeData.dataType))

\* The callback of rows.map in generateTableDefinition: null for a skipped
\* foreign key, a throw of getColumnType, or the column's code with what it
\* pushes on columnData and propDocs.
columnDefinition(row, program) ==
    IF ~program.includeForeignKeys /\ "FOREIGN KEY" \in row.keys
    THEN [result |-> "null"]
    ELSE columnOfType(row, program, getColumnType(row))

\* acc after the callback returned c.
accumulate(acc, c) ==
    IF c.result = "throw" THEN [acc EXCEPT !.error = c.error]
    ELSE IF c.result = "null" THEN acc
    ELSE [acc EXCEPT !.columnsCode = Append(@, c.code),
                     !.propDocs = Append(@, c.propDoc),
                     !.columnData = Append(@, c.columnData)]

\* rows.map(...).filter(Boolean): the columns in row order, up to the first throw.
RECURSIVE mapColumns(_, _, _)
mapColumns(rows, program, acc) ==
    IF rows = << >> \/ acc.error.threw THEN acc
    ELSE mapColumns(Tail(rows), program,
                    accumulate(acc, columnDefinition(Head(rows), program)))

columnsOf(rows, program) ==
    mapColumns(rows, program,
               [error |-> NoError, columnsCode |-> << >>, propDocs |-> << >>,
                columnData |-> << >>])

(***************************************************************************)
(* inflection.singularize / pluralize, for the regular English plural the  *)
(* library forms with a final "s".                                         *)
(***************************************************************************)
singularize(word) ==
    IF Len(word) >= 2 /\ word[Len(word)] = "s" /\ word[Len(word) - 1] # "s"
    THEN SubSeq(word, 1, Len(word) - 1) ELSE word

pluralize(word) ==
    IF Len(word) >= 1 /\ word[Len(word)] = "s" THEN word ELSE word \o <<"s">>

lowerFirst(word) == <<toLowerCase(word[1])>> \o Tail(word)

\* const className = inflection.singularize(toPascalCase(tableName))
className(tableName) == singularize(toPascalCase(tableName))

(***************************************************************************)
(* generateTableDefinition: the TypeScript association output              *)
(***************************************************************************)
\* The lines one association contributes to the instance interface.
instanceLines(ass) ==
    IF ass.manyToMany
    THEN LET pluralized == pluralize(ass.model)
             singular == singularize(ass.model)
         IN  << [member |-> <<"g","e","t">> \o pluralized, model |-> ass.model],
                [member |-> <<"s","e","t">> \o pluralized, model |-> ass.model],
                [member |-> <<"a","d","d">> \o singular, model |-> ass.model],
                [member |-> <<"a","d","d">> \o pluralized, model |-> ass.model] >>
    ELSE << [member |-> lowerFirst(ass.model), model |-> ass.model] >>

\* Variant of instanceCodeFrom that keeps no instancedModels: every association
\* contributes its lines.
RECURSIVE instanceCodeFrom_NoDedup(_, _)
instanceCodeFrom_NoDedup(list, instancedModels) ==
    IF list = << >> THEN << >>
    ELSE instanceLines(Head(list)) \o instanceCodeFrom_NoDedup(Tail(list), instancedModels)

\* associations[tableName].map(...).filter(Boolean).reduce(...): the lines of the
\* associations whose model is not yet in instancedModels.
RECURSIVE instanceCodeFrom(_, _)
instanceCodeFrom(list, instancedModels) ==
    IF list = << >> THEN << >>
    ELSE IF Head(list).model \in instancedModels
         THEN instanceCodeFrom(Tail(list), instancedModels)
         ELSE instanceLines(Head(list))
              \o instanceCodeFrom(Tail(list), instancedModels \cup {Head(list).model})

\* The import lines of the associations whose model is not yet in includedModels.
RECURSIVE includeCodeFrom(_, _)
includeCodeFrom(list, includedModels) ==
    IF list = << >> THEN << >>
    ELSE IF Head(list).model \in includedModels
         THEN includeCodeFrom(Tail(list), includedModels)
         ELSE << [import |-> Head(list).model, from |-> Head(list).fileName] >>
              \o includeCodeFrom(Tail(list), includedModels \cup {Head(list).model})

\* Whether generateTableDefinition reads associations[tableName].
readsAssociations(program) == program.typescript

\* The code generateTableDefinition writes for a table whose columns did not throw.
tableCode(tableName, columns, program, associations) ==
    IF ~program.typescript
    THEN [language |-> "js",
          tableName |-> tableName,
          className |-> className(tableName),
          propDocs |-> columns.propDocs,
          columns |-> columns.columnsCode]
    ELSE LET list == IF tableName \in DOMAIN associations
                     THEN associations[tableName] ELSE << >>
             sequelizeImports ==
                 << "DataTypes", "DefineAttributes", "DefineOptions" >>
                 \o (IF \E k \in DOMAIN list : list[k].manyToMany
                     THEN << "FindOptions" >> ELSE << >>)
         IN  [language |-> "ts",
              tableName |-> tableName,
              className |-> className(tableName),
              attributesClassName |-> className(tableName)
                                      \o <<"A","t","t","r","i","b","u","t","e","s">>,
              sequelizeImports |-> sequelizeImports,
              includeCode |-> includeCodeFrom(list, {}),
              attributeCode |-> [k \in DOMAIN columns.columnData |->
                                   [name |-> columns.columnData[k].name,
                                    tsType |-> columns.columnData[k].typeData.tsType]],
              instanceCode |-> instanceCodeFrom(list, {}),
              columns |-> columns.columnsCode]

(***************************************************************************)
(* generateAssociations: one foreign-key row                               *)
(***************************************************************************)
\* associations[key] = associations[key] || []; associations[key].push(entry)
push(associations, key, entry) ==
    IF key \in DOMAIN associations
    THEN [associations EXCEPT ![key] = Append(@, entry)]
    ELSE associations @@ (key :> << entry >>)

\* Variant of registerAssociations that registers a pivot row under the other
\* table only.
registerAssociations_OneSided(associations, row) ==
    IF Truthy(row.other_table)
    THEN push(associations, row.other_table,
              [manyToMany |-> TRUE, model |-> toPascalCase(row.reference_table),
               fileName |-> row.reference_table])
    ELSE push(associations, row.table_name,
              [manyToMany |-> FALSE, model |-> toPascalCase(row.reference_table),
               fileName |-> row.reference_table])

\* Variant of registerAssociations that registers a plain foreign key under the
\* referenced table as well as under the owning table.
registerAssociations_Inbound(associations, row) ==
    IF Truthy(row.other_table)
    THEN push(push(associations, row.other_table,
                   [manyToMany |-> TRUE, model |-> toPascalCase(row.reference_table),
                    fileName |-> row.reference_table]),
              row.reference_table,
              [manyToMany |-> TRUE, model |-> toPascalCase(row.other_table),
               fileName |-> row.other_table])
    ELSE push(push(associations, row.table_name,
                   [manyToMany |-> FALSE, model |-> toPascalCase(row.reference_table),
                    fileName |-> row.reference_table]),
              row.reference_table,
              [manyToMany |-> FALSE, model |-> toPascalCase(row.table_name),
               fileName |-> row.table_name])

\* What the callback of rows.map does to the association lookup for one row.
\* manyToMany is FALSE where the source leaves the property out.
registerAssociations(associations, row) ==
    LET tableName == row.table_name
        refTableName == row.reference_table
        otherTableName == row.other_table
        targetModelName == toPascalCase(refTableName)
    IN  IF Truthy(otherTableName)
        THEN push(push(associations, otherTableName,
                       [manyToMany |-> TRUE, model |-> targetModelName,
                        fileName |-> refTableName]),
                  refTableName,
                  [manyToMany |-> TRUE, model |-> toPascalCase(otherTableName),
                   fileName |-> otherTableName])
        ELSE push(associations, tableName,
                  [manyToMany |-> FALSE, model |-> targetModelName,
                   fileName |-> refTableName])

\* The relation statement the callback returns for one row.
relationCodeOf(row) ==
    LET modelName == toPascalCase(row.table_name)
        targetModelName == toPascalCase(row.reference_table)
        asName == toCamelCase(row.reference_table)
        comment == [table |-> row.table_name, column |-> row.column_name,
                    refTable |-> row.reference_table, refColumn |-> row.reference_column,
                    constraint |-> row.constraint_name]
    IN  IF Truthy(row.other_table)
        THEN [comment |-> comment, call |-> "belongsToMany",
              source |-> targetModelName, target |-> toPascalCase(row.other_table),
              through |-> modelName, foreignKey |-> row.column_name]
        ELSE [comment |-> comment, call |-> "belongsTo",
              source |-> modelName, target |-> targetModelName,
              foreignKey |-> row.column_name, as |-> asName]

\* The lookup after rows.map has run over all the rows.
RECURSIVE scanRows(_, _)
scanRows(associations, rows) ==
    IF rows = << >> THEN associations
    ELSE scanRows(registerAssociations(associations, Head(rows)), Tail(rows))

(***************************************************************************)
(* Bounds and inputs: the options of the command line and the rows the     *)
(* catalog queries return.                                                 *)
(***************************************************************************)
MaxFKRows == 1
MaxCols == 1
MaxScanRows == 2

\* The sequences over S of length at most n.
SeqsUpTo(S, n) == UNION {[1..k -> S] : k \in 0..n}

\* program, as parseArgs leaves it.
Programs == [typescript : BOOLEAN, includeForeignKeys : BOOLEAN, camelCase : BOOLEAN]

Str_post == <<"p","o","s","t">>
Str_post_tag == <<"p","o","s","t","_","t","a","g">>
Str_tags == <<"t","a","g","s">>
Str_id == <<"i","d">>
Str_fk == <<"f","k">>
Str_tag_id == <<"t","a","g","_","i","d">>

\* The tables of the schema, in the order of ORDER BY table_name.
SchemaTables == << Str_post, Str_post_tag, Str_tags >>

\* allTablesQuery returns a schema's tables sorted: a subsequence of SchemaTables.
RECURSIVE SubSequences(_)
SubSequences(s) ==
    IF s = << >> THEN { << >> }
    ELSE LET rest == SubSequences(Tail(s))
         IN  rest \cup { << Head(s) >> \o r : r \in rest }

TableLists == SubSequences(SchemaTables)

TableNames == { SchemaTables[k] : k \in DOMAIN SchemaTables }

\* A row of foreignKeyQuery.  other_table is NULL where the self-join finds no
\* second foreign key in the same primary key.
ForeignKeyRow(table, ref, other) ==
    [constraint_name |-> Str_fk, table_name |-> table, column_name |-> ref \o <<"_">> \o Str_id,
     reference_table |-> ref, reference_column |-> Str_id, other_table |-> other]

ForeignKeyRows ==
    { ForeignKeyRow(t, r, o) : t \in TableNames, r \in TableNames, o \in TableNames \cup {NULL} }

\* The foreign keys of the runs: a pivot pair and a plain foreign key.
RunForeignKeyRows ==
    { ForeignKeyRow(Str_post_tag, Str_post, Str_tags),
      ForeignKeyRow(Str_post_tag, Str_tags, Str_post),
      ForeignKeyRow(Str_post, Str_tags, NULL) }

\* A row of columnQuery.  keys holds the constraint types of ARRAY_AGG without its
\* null elements, which no indexOf of the source looks for.
ColumnRow(name, type, default, keys) ==
    [column_name |-> name, column_default |-> default, is_nullable |-> "NO",
     data_type |-> type.data_type, character_maximum_length |-> type.character_maximum_length,
     udt_name |-> type.udt_name, enum_values |-> type.enum_values, keys |-> keys]

\* data_type with the columns of the row that depend on it.
CatalogType(dataType, udtName, maxLength, enumValues) ==
    [data_type |-> dataType, udt_name |-> udtName,
     character_maximum_length |-> maxLength, enum_values |-> enumValues]

Str_no_enum == <<"{","N","U","L","L","}">>

PlainType(name) == CatalogType(name, name, 0, Str_no_enum)

\* The columns of the runs: a serial key, and a plain column and a foreign key
\* of a type getColumnType does not know.
RunColumnRows ==
    { ColumnRow(Str_id, PlainType(Str_integer),
                <<"n","e","x","t","v","a","l","(","'","s","'",")">>, {"PRIMARY KEY"}),
      ColumnRow(Str_tag_id, PlainType(Str_uuid), NULL, {}),
      ColumnRow(Str_tag_id, PlainType(Str_uuid), NULL, {"FOREIGN KEY"}) }

(***************************************************************************)
(* The run of generate()                                                   *)
(***************************************************************************)
VARIABLES
    program,          \* the options parseArgs returned
    pc,               \* where generate() is: the await it is suspended at
    inFlight,         \* the queries client.query has been handed and not answered
    associations,     \* the association lookup: table name -> list of entries
    fkRows,           \* the rows of foreignKeyQuery
    fkIndex,          \* the row rows.map is at in generateAssociations (from 1)
    relationCode,     \* the relation statements rows.map has returned so far
    tables,           \* the table names of allTablesQuery
    i,                \* the loop index of generateDefinitions (from 0)
    columnRows,       \* the rows columnQuery returned, per table processed so far
    columnData,       \* columnData of the generateTableDefinition call under way
    pending,          \* the file and code handed to fs.writeFile and not yet written
    files,            \* the files written, in the order of writing
    err,              \* the error generate() rejected with
    exit,             \* process.exit, once called, with its code
    associationsRead  \* whether generateTableDefinition has read associations[tableName]

vars == << program, pc, inFlight, associations, fkRows, fkIndex, relationCode, tables,
           i, columnRows, columnData, pending, files, err, exit, associationsRead >>

NoAssociations == [t \in {} |-> << >>]
NoWrite == [busy |-> FALSE]
NotExited == [called |-> FALSE]

RelationsPath == [target |-> "relationsFile", name |-> << >>, ext |-> ""]
ModelPath(tableName, prog) ==
    [target |-> "modelsDir", name |-> tableName,
     ext |-> IF prog.typescript THEN "ts" ELSE "js"]

\* The error of a failed connection, query or write: the collaborator's.
IoError == Thrown("Error", <<"<i/o error>">>)

Init ==
    /\ program \in Programs
    /\ pc = "connect"
    /\ inFlight = 0
    /\ associations = NoAssociations
    /\ fkRows = << >>
    /\ fkIndex = 1
    /\ relationCode = << >>
    /\ tables = << >>
    /\ i = 0
    /\ columnRows = << >>
    /\ columnData = << >>
    /\ pending = NoWrite
    /\ files = << >>
    /\ err = NoError
    /\ exit = NotExited
    /\ associationsRead = FALSE

\* await client.connect() resolves; generateAssociations issues foreignKeyQuery.
Connected ==
    /\ pc = "connect"
    /\ pc' = "foreignKeyQuery"
    /\ inFlight' = inFlight + 1
    /\ UNCHANGED << program, associations, fkRows, fkIndex, relationCode, tables, i,
                    columnRows, columnData, pending, files, err, exit, associationsRead >>

\* runQuery(foreignKeyQuery) resolves with `rows`.
ForeignKeysFetched(rows) ==
    /\ pc = "foreignKeyQuery"
    /\ pc' = "scan"
    /\ inFlight' = inFlight - 1
    /\ fkRows' = rows
    /\ fkIndex' = 1
    /\ UNCHANGED << program, associations, relationCode, tables, i, columnRows,
                    columnData, pending, files, err, exit, associationsRead >>

\* One call of the rows.map callback of generateAssociations.
ScanRow ==
    /\ pc = "scan"
    /\ fkIndex <= Len(fkRows)
    /\ associations' = registerAssociations(associations, fkRows[fkIndex])
    /\ relationCode' = Append(relationCode, relationCodeOf(fkRows[fkIndex]))
    /\ fkIndex' = fkIndex + 1
    /\ UNCHANGED << program, pc, inFlight, fkRows, tables, i, columnRows, columnData,
                    pending, files, err, exit, associationsRead >>

\* A variant of WriteRelations that does not wait for rows.map to reach the last
\* row before the file is written and generateDefinitions starts.
WriteRelations_Early ==
    /\ pc = "scan"
    /\ pending' = [busy |-> TRUE, path |-> RelationsPath,
                   code |-> [language |-> IF program.typescript THEN "ts" ELSE "js",
                             relationCode |-> relationCode]]
    /\ pc' = "writeRelations"
    /\ UNCHANGED << program, inFlight, associations, fkRows, fkIndex, relationCode, tables,
                    i, columnRows, columnData, files, err, exit, associationsRead >>

\* rows.map is through: the relations code is handed to fs.writeFile.
WriteRelations ==
    /\ pc = "scan"
    /\ fkIndex > Len(fkRows)
    /\ pending' = [busy |-> TRUE, path |-> RelationsPath,
                   code |-> [language |-> IF program.typescript THEN "ts" ELSE "js",
                             relationCode |-> relationCode]]
    /\ pc' = "writeRelations"
    /\ UNCHANGED << program, inFlight, associations, fkRows, fkIndex, relationCode, tables,
                    i, columnRows, columnData, files, err, exit, associationsRead >>

\* The relations file is written: generateAssociations returns and
\* generateDefinitions issues allTablesQuery.
RelationsWritten ==
    /\ pc = "writeRelations"
    /\ files' = Append(files, [path |-> pending.path, code |-> pending.code])
    /\ pending' = NoWrite
    /\ pc' = "allTablesQuery"
    /\ inFlight' = inFlight + 1
    /\ UNCHANGED << program, associations, fkRows, fkIndex, relationCode, tables, i,
                    columnRows, columnData, err, exit, associationsRead >>

\* runQuery(allTablesQuery) resolves with the rows of `names`.
TablesFetched(names) ==
    /\ pc = "allTablesQuery"
    /\ tables' = names
    /\ inFlight' = inFlight - 1
    /\ i' = 0
    /\ pc' = "loop"
    /\ UNCHANGED << program, associations, fkRows, fkIndex, relationCode, columnRows,
                    columnData, pending, files, err, exit, associationsRead >>

\* Variant of StartTable that does not await the table before: the column query
\* of the next table is issued while one is in flight.
StartTable_NoAwait ==
    /\ pc \in {"loop", "columnQuery"}
    /\ i < Len(tables)
    /\ inFlight < 2
    /\ pc' = "columnQuery"
    /\ inFlight' = inFlight + 1
    /\ columnData' = << >>
    /\ UNCHANGED << program, associations, fkRows, fkIndex, relationCode, tables, i,
                    columnRows, pending, files, err, exit, associationsRead >>

\* for (let i = 0; i < tables.length; i++): generateTableDefinition(tables[i])
\* issues columnQuery.
StartTable ==
    /\ pc = "loop"
    /\ i < Len(tables)
    /\ pc' = "columnQuery"
    /\ inFlight' = inFlight + 1
    /\ columnData' = << >>
    /\ UNCHANGED << program, associations, fkRows, fkIndex, relationCode, tables, i,
                    columnRows, pending, files, err, exit, associationsRead >>

\* runQuery(columnQuery) resolves with `rows`.
ColumnsFetched(rows) ==
    /\ pc = "columnQuery"
    /\ columnRows' = Append(columnRows, rows)
    /\ inFlight' = inFlight - 1
    /\ pc' = "build"
    /\ UNCHANGED << program, associations, fkRows, fkIndex, relationCode, tables, i,
                    columnData, pending, files, err, exit, associationsRead >>

\* generateTableDefinition from the rows to fs.writeFile, the callbacks of
\* rows.map having left `columns`: a throw of getColumnType rejects generate(),
\* and otherwise the code of the model is handed to fs.writeFile.
BuildTableFrom(tableName, columns) ==
    IF columns.error.threw
    THEN /\ err' = columns.error
         /\ pc' = "rejected"
         /\ columnData' = << >>
         /\ UNCHANGED << pending, associationsRead >>
    ELSE /\ columnData' = columns.columnData
         /\ pending' = [busy |-> TRUE, path |-> ModelPath(tableName, program),
                        code |-> tableCode(tableName, columns, program, associations)]
         /\ associationsRead' = (associationsRead \/ readsAssociations(program))
         /\ pc' = "writeModel"
         /\ err' = err

BuildTable ==
    /\ pc = "build"
    /\ BuildTableFrom(tables[i + 1], columnsOf(columnRows[i + 1], program))
    /\ UNCHANGED << program, inFlight, associations, fkRows, fkIndex, relationCode, tables,
                    i, columnRows, files, exit >>

\* The model file is written: generateTableDefinition returns, i++.
ModelWritten ==
    /\ pc = "writeModel"
    /\ files' = Append(files, [path |-> pending.path, code |-> pending.code])
    /\ pending' = NoWrite
    /\ columnData' = << >>
    /\ i' = i + 1
    /\ pc' = "loop"
    /\ UNCHANGED << program, inFlight, associations, fkRows, fkIndex, relationCode, tables,
                    columnRows, err, exit, associationsRead >>

\* The loop is through: generate() resolves.
Resolve ==
    /\ pc = "loop"
    /\ i >= Len(tables)
    /\ pc' = "resolved"
    /\ UNCHANGED << program, inFlight, associations, fkRows, fkIndex, relationCode, tables,
                    i, columnRows, columnData, pending, files, err, exit, associationsRead >>

\* The connection, a query or a write fails: the awaited promise rejects, and
\* with it generate().
Reject ==
    /\ pc \in {"connect", "foreignKeyQuery", "writeRelations", "allTablesQuery",
               "columnQuery", "writeModel"}
    /\ err' = IoError
    /\ inFlight' = 0
    /\ pending' = NoWrite
    /\ columnData' = << >>
    /\ pc' = "rejected"
    /\ UNCHANGED << program, associations, fkRows, fkIndex, relationCode, tables, i,
                    columnRows, files, exit, associationsRead >>

\* generate().then(...): process.exit(0)
ExitSuccess ==
    /\ pc = "resolved"
    /\ exit' = [called |-> TRUE, code |-> 0]
    /\ pc' = "exit"
    /\ UNCHANGED << program, inFlight, associations, fkRows, fkIndex, relationCode, tables,
                    i, columnRows, columnData, pending, files, err, associationsRead >>

\* generate().catch(...): process.exit(1)
ExitFailure ==
    /\ pc = "rejected"
    /\ exit' = [called |-> TRUE, code |-> 1]
    /\ pc' = "exit"
    /\ UNCHANGED << program, inFlight, associations, fkRows, fkIndex, relationCode, tables,
                    i, columnRows, columnData, pending, files, err, associationsRead >>

Next ==
    \/ Connected
    \/ \E rows \in SeqsUpTo(RunForeignKeyRows, MaxFKRows) : ForeignKeysFetched(rows)
    \/ ScanRow
    \/ WriteRelations
    \/ RelationsWritten
    \/ \E names \in TableLists : TablesFetched(names)
    \/ StartTable
    \/ \E rows \in SeqsUpTo(RunColumnRows, MaxCols) : ColumnsFetched(rows)
    \/ BuildTable
    \/ ModelWritten
    \/ Resolve
    \/ Reject
    \/ ExitSuccess
    \/ ExitFailure

Spec == Init /\ [][Next]_vars

(***************************************************************************)
(* The inputs of the column and association checks: the catalog types, the *)
(* default expressions as PostgreSQL prints them for a column of each      *)
(* type, and the foreign-key rows of a schema.                             *)
(***************************************************************************)
Str_enum_labels == <<"{","h","a","p","p","y",",","s","a","d","}">>

ArrayOf(element) == CatalogType(Str_ARRAY, element \o Str_brackets, 0, Str_no_enum)

CatalogTypes ==
    { PlainType(Str_integer), PlainType(Str_smallint), PlainType(Str_numeric),
      PlainType(Str_date), PlainType(Str_timestamp_with_time_zone),
      PlainType(Str_jsonb), PlainType(Str_json), PlainType(Str_boolean),
      PlainType(Str_text), PlainType(Str_uuid), PlainType(Str_bigint),
      CatalogType(Str_character_varying, Str_character_varying, 255, Str_no_enum),
      CatalogType(Str_character_varying, Str_character_varying, 0, Str_no_enum),
      CatalogType(Str_character, Str_character, 1, Str_no_enum),
      CatalogType(Str_USER_DEFINED, Str_mood, 0, Str_enum_labels),
      ArrayOf(Str_integer), ArrayOf(Str_text), ArrayOf(Str_uuid), ArrayOf(Str_mood) }

Txt_quoted == <<"'","a","b","c","'">>
Txt_quoted_varchar == <<"'","a","b","c","'",":",":","c","h","a","r","a","c","t","e","r"," ","v","a","r","y","i","n","g">>
Txt_quoted_empty_varchar == <<"'","'",":",":","c","h","a","r","a","c","t","e","r"," ","v","a","r","y","i","n","g">>
Txt_quoted_text == <<"'","a","b","c","'",":",":","t","e","x","t">>
Txt_quoted_bpchar == <<"'","a","'",":",":","b","p","c","h","a","r">>
Txt_jsonb_object == <<"'","{","}","'",":",":","j","s","o","n","b">>
Txt_json_object == <<"'","{","}","'",":",":","j","s","o","n">>
Txt_now == <<"n","o","w","(",")">>
Txt_current_timestamp == <<"C","U","R","R","E","N","T","_","T","I","M","E","S","T","A","M","P">>
Txt_current_date == <<"C","U","R","R","E","N","T","_","D","A","T","E">>
Txt_nextval == <<"n","e","x","t","v","a","l","(","'","f","o","o","_","i","d","_","s","e","q","'",")">>
Txt_nextval_regclass == <<"n","e","x","t","v","a","l","(","'","f","o","o","_","i","d","_","s","e","q","'",":",":","r","e","g","c","l","a","s","s",")">>
Txt_true == <<"t","r","u","e">>
Txt_false == <<"f","a","l","s","e">>
Txt_comparison == <<"(","1"," ","="," ","1",")">>
Txt_zero == <<"0">>
Txt_number == <<"4","2">>
Txt_negative_cast == <<"'","-","1","'",":",":","i","n","t","e","g","e","r">>
Txt_fraction == <<"1",".","5">>
Txt_array_constructor == <<"A","R","R","A","Y","[","]",":",":","i","n","t","e","g","e","r","[","]">>
Txt_array_literal == <<"'","{","}","'",":",":">>
Txt_enum_label == <<"'","h","a","p","p","y","'",":",":","m","o","o","d">>
Txt_gen_random_uuid == <<"g","e","n","_","r","a","n","d","o","m","_","u","u","i","d","(",")">>

\* column_default of a column of the type: NULL without a default, and the
\* expressions pg_get_expr prints for defaults of that type.  A sequence default
\* prints as a nextval call on every type a bigint is assigned to.
DefaultsOf(type) ==
    {NULL} \cup
    CASE type.data_type \in {Str_integer, Str_smallint} ->
             {Txt_zero, Txt_number, Txt_negative_cast, Txt_nextval, Txt_nextval_regclass}
      [] type.data_type = Str_bigint -> {Txt_zero, Txt_nextval_regclass}
      [] type.data_type = Str_numeric -> {Txt_zero, Txt_fraction, Txt_nextval_regclass}
      [] type.data_type = Str_character_varying ->
             {Txt_quoted, Txt_quoted_varchar, Txt_quoted_empty_varchar, Txt_nextval_regclass}
      [] type.data_type = Str_character -> {Txt_quoted_bpchar}
      [] type.data_type = Str_text -> {Txt_quoted_text, Txt_nextval_regclass}
      [] type.data_type = Str_date -> {Txt_current_date, Txt_now}
      [] type.data_type = Str_timestamp_with_time_zone -> {Txt_now, Txt_current_timestamp}
      [] type.data_type = Str_jsonb -> {Txt_jsonb_object}
      [] type.data_type = Str_json -> {Txt_json_object}
      [] type.data_type = Str_boolean -> {Txt_true, Txt_false, Txt_comparison}
      [] type.data_type = Str_USER_DEFINED -> {Txt_enum_label}
      [] type.data_type = Str_ARRAY -> {Txt_array_constructor, Txt_array_literal \o type.udt_name}
      [] OTHER -> {Txt_gen_random_uuid}

KeySets == { {}, {"PRIMARY KEY"}, {"FOREIGN KEY"} }

ColumnRows ==
    UNION { { ColumnRow(Str_tag_id, type, default, keys) :
                default \in DefaultsOf(type), keys \in KeySets } : type \in CatalogTypes }

\* generate() about to build the one table of a schema without foreign keys,
\* columnQuery having returned one row.
InitColumns ==
    /\ program \in Programs
    /\ pc = "build"
    /\ inFlight = 0
    /\ associations = NoAssociations
    /\ fkRows = << >>
    /\ fkIndex = 1
    /\ relationCode = << >>
    /\ tables = << Str_post >>
    /\ i = 0
    /\ \E row \in ColumnRows : columnRows = << << row >> >>
    /\ columnData = << >>
    /\ pending = NoWrite
    /\ files = << [path |-> RelationsPath,
                   code |-> [language |-> IF program.typescript THEN "ts" ELSE "js",
                             relationCode |-> << >>]] >>
    /\ err = NoError
    /\ exit = NotExited
    /\ associationsRead = FALSE

NextColumns == BuildTable \/ ExitFailure

SpecColumns == InitColumns /\ [][NextColumns]_vars

\* generate() about to scan the rows foreignKeyQuery returned.  Of program,
\* generateAssociations reads typescript alone.
InitAssociations ==
    /\ program \in { p \in Programs : ~p.includeForeignKeys /\ ~p.camelCase }
    /\ pc = "scan"
    /\ inFlight = 0
    /\ associations = NoAssociations
    /\ fkRows \in SeqsUpTo(ForeignKeyRows, MaxScanRows)
    /\ fkIndex = 1
    /\ relationCode = << >>
    /\ tables = << >>
    /\ i = 0
    /\ columnRows = << >>
    /\ columnData = << >>
    /\ pending = NoWrite
    /\ files = << >>
    /\ err = NoError
    /\ exit = NotExited
    /\ associationsRead = FALSE

NextAssociations == ScanRow \/ WriteRelations

SpecAssociations == InitAssociations /\ [][NextAssociations]_vars

(***************************************************************************)
(* Properties                                                              *)
(***************************************************************************)
IsPrefix(s, t) == Len(s) <= Len(t) /\ SubSeq(t, 1, Len(s)) = s

\* generateAssociations has returned: every row is scanned and the relations
\* file is written.
generateAssociationsReturned ==
    /\ fkIndex > Len(fkRows)
    /\ \E k \in DOMAIN files : files[k].path = RelationsPath
    /\ pc \notin {"connect", "foreignKeyQuery", "scan", "writeRelations"}

\* C1: a read of associations[tableName] by generateTableDefinition happens only
\* once generateAssociations has returned, with every foreign-key row of the
\* query registered in the lookup, and the lookup is not written after a read.
C1_AssociationsPopulatedBeforeRead ==
    [][ /\ associationsRead' =>
             /\ generateAssociationsReturned'
             /\ associations' = scanRows(NoAssociations, fkRows')
        /\ associationsRead => associations' = associations ]_vars

\* C1 witness: a table definition has read a lookup that foreign-key rows filled.
C1_Witness ==
    /\ associationsRead
    /\ Len(fkRows) >= 1
    /\ DOMAIN associations # {}
    /\ pc = "writeModel"

\* The raw type names the switch of getColumnType has a case for.
SupportedTypes ==
    { Str_integer, Str_smallint, Str_numeric, Str_character_varying, Str_character,
      Str_date, Str_timestamp_with_time_zone, Str_jsonb, Str_json, Str_boolean,
      Str_USER_DEFINED, Str_text, Str_ARRAY }

hasUnknownType(rows) == \E k \in DOMAIN rows : rows[k].data_type \notin SupportedTypes

\* A column the callback does not drop before classifying it.
hasKeptUnknownType(rows) ==
    \E k \in DOMAIN rows :
        /\ rows[k].data_type \notin SupportedTypes
        /\ program.includeForeignKeys \/ "FOREIGN KEY" \notin rows[k].keys

\* No model file of the t-th table or of a later table is written, generate()
\* does not resolve, and an exit is an exit with status 1.
abortsAtTable(t) ==
    /\ \A k \in DOMAIN files :
           files[k].path.target = "modelsDir" =>
               \E u \in 1..(t - 1) : files[k].path.name = tables[u]
    /\ pc # "resolved"
    /\ exit.called => exit.code = 1

\* C2 as stated: any column of a type outside the mapping, in any table, aborts
\* the run at that table.
C2_Original_AnyUnknownTypeAborts ==
    \A t \in DOMAIN columnRows : hasUnknownType(columnRows[t]) => abortsAtTable(t)

\* C2, amended: a column of a type outside the mapping that is not dropped as a
\* foreign key (foreign keys are dropped unless --include-foreign-keys) aborts
\* the run at its table: no model file for that table or a later one, exit
\* status 1, and the files written before stay as written.
C2_KeptUnknownTypeAborts ==
    [][ /\ IsPrefix(files, files')
        /\ \A t \in DOMAIN columnRows' :
               hasKeptUnknownType(columnRows'[t]) => abortsAtTable(t)' ]_vars

\* C2 witness: the run has exited with status 1 on the second table's unknown
\* type, the relations file and the first table's model file in place.
C2_Witness ==
    /\ exit.called /\ exit.code = 1
    /\ Len(columnRows) = 2
    /\ hasKeptUnknownType(columnRows[2])
    /\ err.message = Str_Unhandled \o Str_uuid
    /\ Len(files) = 2
    /\ files[2].path.name = tables[1]

(***************************************************************************)
(* Properties of one column (checked under SpecColumns, where columnQuery  *)
(* returned the one row theRow).                                           *)
(***************************************************************************)
theRow == columnRows[1][1]

\* The callback did not drop the row as a foreign key: getColumnType was called.
classified == program.includeForeignKeys \/ "FOREIGN KEY" \notin theRow.keys

\* generateTableDefinition has built the column of theRow.
columnBuilt == pc = "writeModel" /\ classified /\ Len(columnData) = 1

\* getColumnType threw on theRow.
typeThrew == pc \in {"rejected", "exit"} /\ classified /\ err.threw

theColumn == columnData[1]

\* The scalar kinds of the generated documentation and TypeScript types.
DocTypes == { Str_number, Str_string, Str_Date, Str_Object, Str_boolean, Str_Array }
ScalarTsTypes == { Str_number, Str_string, Str_Date, Str_any, Str_boolean }

hasScalarKind(typeData) ==
    /\ typeData.docType \in DocTypes
    /\ \/ typeData.tsType \in ScalarTsTypes
       \/ \E t \in ScalarTsTypes : typeData.tsType = t \o Str_brackets

threwUnhandled(name) ==
    typeThrew /\ err.name = "Error" /\ err.message = Str_Unhandled \o name

\* C3 as stated: every supported type name classifies, ARRAY included, and every
\* other name throws 'Unhandled data type'.
C3_Original_TotalOnSupportedSet ==
    (classified /\ pc # "build") =>
        IF theRow.data_type \in SupportedTypes
        THEN columnBuilt /\ hasScalarKind(theColumn.typeData)
        ELSE threwUnhandled(theRow.data_type)

\* The element type name of an ARRAY column: udt_name without one trailing [].
elementTypeName(row) ==
    IF Len(row.udt_name) >= 2
       /\ SubSeq(row.udt_name, Len(row.udt_name) - 1, Len(row.udt_name)) = <<"[", "]">>
    THEN SubSeq(row.udt_name, 1, Len(row.udt_name) - 2)
    ELSE row.udt_name

\* The supported names getColumnType classifies from data_type alone.
ElementTypes == SupportedTypes \ { Str_ARRAY, Str_USER_DEFINED }

\* C3, amended: getColumnType returns a triple of a fixed scalar kind for every
\* supported type name other than ARRAY, and for ARRAY exactly when the element
\* type name is a supported scalar type name; an ARRAY of any other element type
\* throws (Unhandled data type: the element type name), and a type name outside
\* the supported set throws Unhandled data type.
C3_TotalExceptArrayElements ==
    (classified /\ pc # "build") =>
        IF theRow.data_type \in SupportedTypes \ { Str_ARRAY }
        THEN columnBuilt /\ hasScalarKind(theColumn.typeData)
        ELSE IF theRow.data_type = Str_ARRAY
        THEN IF elementTypeName(theRow) \in ElementTypes
             THEN /\ columnBuilt
                  /\ hasScalarKind(theColumn.typeData)
                  /\ theColumn.typeData.docType = Str_Array
             ELSE threwUnhandled(elementTypeName(theRow))
        ELSE threwUnhandled(theRow.data_type)

\* C3 witness: getColumnType has thrown on an ARRAY column of uuid elements.
C3_Witness ==
    /\ typeThrew
    /\ theRow.data_type = Str_ARRAY
    /\ theRow.udt_name = Str_uuid \o Str_brackets
    /\ err.message = Str_Unhandled \o Str_uuid

\* The text is one that the first four branches of the chain take: a quoted
\* literal, a quoted jsonb cast, now() or a nextval( call.
takenByRules1to4(text) ==
    \/ execQuotedLiteral(text) # NULL
    \/ execQuotedCast(text, Str_jsonb) # NULL
    \/ text = Str_now
    \/ StartsWith(ToStr(text), Str_nextval)

startsWithNextval(text) ==
    /\ IsString(text)
    /\ Len(text) >= 8
    /\ SubSeq(text, 1, 8) = <<"n","e","x","t","v","a","l","(">>

isAutoIncrementColumn(column) ==
    column.autoIncrement /\ column.defaultValue.kind = "null"

\* C4: a default text that begins with nextval( resolves to auto-increment
\* without a default value, whatever the type of the column and whatever quoted
\* literal the text holds.
C4_NextvalIsAutoIncrement ==
    (columnBuilt /\ startsWithNextval(theRow.column_default)) =>
        isAutoIncrementColumn(theColumn)

\* C4 witness: a text column whose default is a nextval call that holds a quoted
\* literal is auto-increment.
C4_Witness ==
    /\ columnBuilt
    /\ theRow.column_default = Txt_nextval_regclass
    /\ theRow.data_type = Str_text
    /\ isAutoIncrementColumn(theColumn)

autoIncrementLine(lines) ==
    \E k \in DOMAIN lines : lines[k].key = "autoIncrement" /\ lines[k].value
defaultValueLine(lines) == \E k \in DOMAIN lines : lines[k].key = "defaultValue"

\* C5: a column that is auto-increment has no default value, in columnData and
\* in the lines of the generated column alike.
C5_AutoIncrementHasNoDefault ==
    columnBuilt =>
        /\ theColumn.autoIncrement => theColumn.defaultValue.kind = "null"
        /\ \A k \in DOMAIN pending.code.columns :
               autoIncrementLine(pending.code.columns[k].lines)
                   => ~defaultValueLine(pending.code.columns[k].lines)

\* C5 witness: an integer column with a nextval default, built as auto-increment.
C5_Witness ==
    /\ columnBuilt
    /\ theRow.data_type = Str_integer
    /\ theRow.column_default = Txt_nextval
    /\ theColumn.autoIncrement
    /\ autoIncrementLine(pending.code.columns[1].lines)

isBooleanDefault(column, b) ==
    column.defaultValue.kind = "boolean" /\ column.defaultValue.value = b /\ ~column.autoIncrement

\* C6: a non-empty default text of a boolean column resolves to a boolean: false
\* for the text "false" and true for any other text, "true" included.
C6_BooleanDefault ==
    (columnBuilt /\ theRow.data_type = Str_boolean /\ Truthy(theRow.column_default)) =>
        isBooleanDefault(theColumn, theRow.column_default # <<"f","a","l","s","e">>)

\* C6 witness: a boolean column whose default is neither "true" nor "false",
\* resolved to true.
C6_Witness ==
    /\ columnBuilt
    /\ theRow.data_type = Str_boolean
    /\ theRow.column_default = Txt_comparison
    /\ isBooleanDefault(theColumn, TRUE)

NumberTypes == { Str_integer, Str_smallint, Str_numeric }

\* C7 as stated: every column of scalar kind number, of storage type INTEGER or
\* DOUBLE, with a default text the first four branches do not take, gets a
\* literal number as default.
C7_Original_NumberDefaultForIntegerAndDouble ==
    (columnBuilt /\ theRow.data_type \in NumberTypes /\ Truthy(theRow.column_default)
       /\ ~takenByRules1to4(theRow.column_default)) =>
        theColumn.defaultValue.kind = "number"

\* What parseInt reads from the named default texts.
ExpectedInteger ==
    { <<Txt_zero, JsNumber(0)>>, <<Txt_number, JsNumber(42)>>,
      <<Txt_negative_cast, JsNaN>> }

\* The text begins, after white space and an optional sign, with a decimal digit.
hasNumericPrefix(text) ==
    \E k \in DOMAIN text :
        /\ text[k] \in {"0","1","2","3","4","5","6","7","8","9"}
        /\ \A j \in 1..(k - 1) : text[j] \in {" ", "\t", "\n"} \/ (j = k - 1 /\ text[j] \in {"+", "-"})

\* C7, amended: a column of storage type INTEGER (integer, smallint) with a
\* non-empty default text the first four branches do not take gets what parseInt
\* reads from the text: the integer of its leading numeric prefix, and NaN when
\* it has none; a column of storage type DOUBLE (numeric) gets no default.
C7_IntegerDefaultOnly ==
    (columnBuilt /\ theRow.data_type \in NumberTypes /\ Truthy(theRow.column_default)
       /\ ~takenByRules1to4(theRow.column_default)) =>
        IF theRow.data_type = Str_numeric
        THEN theColumn.defaultValue.kind = "null" /\ ~theColumn.autoIncrement
        ELSE /\ ~theColumn.autoIncrement
             /\ (theColumn.defaultValue.kind = "number") <=> hasNumericPrefix(theRow.column_default)
             /\ (theColumn.defaultValue.kind = "NaN") <=> ~hasNumericPrefix(theRow.column_default)
             /\ \A e \in ExpectedInteger :
                    theRow.column_default = e[1] => theColumn.defaultValue = e[2]

\* C7 witness: an integer column with default 42, and the literal 42 resolved.
C7_Witness ==
    /\ columnBuilt
    /\ theRow.data_type = Str_smallint
    /\ theRow.column_default = Txt_number
    /\ theColumn.defaultValue = JsNumber(42)

\* C8: no column gets a malformed default: a default text that no branch can
\* parse leaves defaultValue null, and no defaultValue line is emitted for it.
C8_UnparseableDefaultIsNoDefault ==
    columnBuilt =>
        /\ theColumn.defaultValue.kind # "NaN"
        /\ \A k \in DOMAIN pending.code.columns[1].lines :
               pending.code.columns[1].lines[k].key = "defaultValue"
                   => pending.code.columns[1].lines[k].value.kind # "NaN"

(***************************************************************************)
(* Properties of the foreign-key scan (checked under SpecAssociations,     *)
(* where rows 1 .. fkIndex - 1 of fkRows have been through rows.map).      *)
(***************************************************************************)
\* The model names and aliases of the tables of the schema, written out.
PascalName(table) ==
    CASE table = Str_post -> <<"P","o","s","t">>
      [] table = Str_post_tag -> <<"P","o","s","t","T","a","g">>
      [] table = Str_tags -> <<"T","a","g","s">>

CamelName(table) ==
    CASE table = Str_post -> <<"p","o","s","t">>
      [] table = Str_post_tag -> <<"p","o","s","t","T","a","g">>
      [] table = Str_tags -> <<"t","a","g","s">>

entriesUnder(lookup, table) ==
    IF table \in DOMAIN lookup THEN lookup[table] ELSE << >>

isManyToMany(entry) == entry.manyToMany
isBelongsTo(entry) == ~entry.manyToMany

manyToManyEntry(target) ==
    [manyToMany |-> TRUE, model |-> PascalName(target), fileName |-> target]

belongsToEntry(target) ==
    [manyToMany |-> FALSE, model |-> PascalName(target), fileName |-> target]

holds(lookup, table, entry) ==
    \E k \in DOMAIN entriesUnder(lookup, table) : entriesUnder(lookup, table)[k] = entry

scanned == 1..(fkIndex - 1)
isPivotRow(row) == row.other_table # NULL

\* C9: after the scan of any rows, every pivot row (owning table T, referenced
\* table R, other table O) has left a manyToMany entry under R that targets O and
\* one under O that targets R, its relation statement goes through T, and it has
\* left no belongsTo entry: the belongsTo entries under a table are those of the
\* rows without other_table that the table owns, and the manyToMany entries are
\* two for each pivot row.
C9_ManyToManySymmetric ==
    /\ \A j \in scanned :
           isPivotRow(fkRows[j]) =>
               /\ holds(associations, fkRows[j].reference_table,
                        manyToManyEntry(fkRows[j].other_table))
               /\ holds(associations, fkRows[j].other_table,
                        manyToManyEntry(fkRows[j].reference_table))
               /\ relationCode[j].call = "belongsToMany"
               /\ relationCode[j].through = PascalName(fkRows[j].table_name)
               /\ relationCode[j].source = PascalName(fkRows[j].reference_table)
               /\ relationCode[j].target = PascalName(fkRows[j].other_table)
    /\ \A t \in TableNames :
           /\ Len(SelectSeq(entriesUnder(associations, t), isBelongsTo))
                  = Cardinality({ j \in scanned : ~isPivotRow(fkRows[j])
                                                    /\ fkRows[j].table_name = t })
           /\ Len(SelectSeq(entriesUnder(associations, t), isManyToMany))
                  = Cardinality({ j \in scanned : isPivotRow(fkRows[j])
                                                    /\ fkRows[j].reference_table = t })
                    + Cardinality({ j \in scanned : isPivotRow(fkRows[j])
                                                      /\ fkRows[j].other_table = t })

\* C9 witness: the two foreign keys of the pivot post_tag scanned: post and tags
\* hold each other, and nothing is registered under post_tag.
C9_Witness ==
    /\ fkIndex = 3
    /\ fkRows = << ForeignKeyRow(Str_post_tag, Str_post, Str_tags),
                   ForeignKeyRow(Str_post_tag, Str_tags, Str_post) >>
    /\ holds(associations, Str_post, manyToManyEntry(Str_tags))
    /\ holds(associations, Str_tags, manyToManyEntry(Str_post))
    /\ Str_post_tag \notin DOMAIN associations
    /\ relationCode[1].through = relationCode[2].through

\* C10: the scan of a row without other_table appends one belongsTo entry, for
\* the pascal-cased referenced table, to the entries under the owning table and
\* changes the entries under no other table; its relation statement is a
\* belongsTo of the owning model with the camel-cased referenced table as alias.
C10_BelongsToUnderOwnerOnly ==
    [][ (pc = "scan" /\ fkIndex' = fkIndex + 1 /\ ~isPivotRow(fkRows[fkIndex])) =>
            /\ entriesUnder(associations', fkRows[fkIndex].table_name)
                   = Append(entriesUnder(associations, fkRows[fkIndex].table_name),
                            belongsToEntry(fkRows[fkIndex].reference_table))
            /\ \A t \in TableNames \ { fkRows[fkIndex].table_name } :
                   /\ entriesUnder(associations', t) = entriesUnder(associations, t)
                   /\ t \in DOMAIN associations' <=> t \in DOMAIN associations
            /\ DOMAIN associations' \subseteq TableNames
            /\ Len(relationCode') = Len(relationCode) + 1
            /\ relationCode'[fkIndex].call = "belongsTo"
            /\ relationCode'[fkIndex].source = PascalName(fkRows[fkIndex].table_name)
            /\ relationCode'[fkIndex].target = PascalName(fkRows[fkIndex].reference_table)
            /\ relationCode'[fkIndex].as = CamelName(fkRows[fkIndex].reference_table)
      ]_vars

\* C10 witness: the foreign key of post to post_tag scanned: one belongsTo entry
\* under post, none under post_tag, alias postTag.
C10_Witness ==
    /\ fkIndex = 2
    /\ fkRows[1] = ForeignKeyRow(Str_post, Str_post_tag, NULL)
    /\ associations[Str_post] = << belongsToEntry(Str_post_tag) >>
    /\ Str_post_tag \notin DOMAIN associations
    /\ relationCode[1].as = <<"p","o","s","t","T","a","g">>

(***************************************************************************)
(* generateTableDefinition on one table after a scan of foreign-key rows:  *)
(* the lookup is what rows.map left, the relations file is written, and    *)
(* the column query of the table has returned its one column.              *)
(***************************************************************************)
relationCodeOfRows(rows) == [k \in DOMAIN rows |-> relationCodeOf(rows[k])]

InitModels ==
    /\ program \in { p \in Programs : ~p.includeForeignKeys /\ ~p.camelCase }
    /\ pc = "build"
    /\ inFlight = 0
    /\ fkRows \in SeqsUpTo(ForeignKeyRows, MaxScanRows)
    /\ fkIndex = Len(fkRows) + 1
    /\ associations = scanRows(NoAssociations, fkRows)
    /\ relationCode = relationCodeOfRows(fkRows)
    /\ \E t \in TableNames : tables = << t >>
    /\ i = 0
    /\ columnRows = << << ColumnRow(Str_id, PlainType(Str_integer), Txt_nextval_regclass,
                                    {"PRIMARY KEY"}) >> >>
    /\ columnData = << >>
    /\ pending = NoWrite
    /\ files = << [path |-> RelationsPath,
                   code |-> [language |-> IF program.typescript THEN "ts" ELSE "js",
                             relationCode |-> relationCode]] >>
    /\ err = NoError
    /\ exit = NotExited
    /\ associationsRead = FALSE

NextModels == BuildTable \/ ModelWritten

SpecModels == InitModels /\ [][NextModels]_vars

(***************************************************************************)
(* Properties of the model file of one table (checked under SpecModels).   *)
(***************************************************************************)
theTable == tables[1]

\* The registrations of the table, in the order of the scan.
registrations == entriesUnder(associations, theTable)

targetModels == { registrations[k].model : k \in DOMAIN registrations }

\* The first registration for the model.
firstFor(model) ==
    registrations[SetMin({ k \in DOMAIN registrations : registrations[k].model = model })]

\* The import lines and the association lines of the model file about to be
\* written; the JavaScript file has neither.
importsOf(code) == IF code.language = "ts" THEN code.includeCode ELSE << >>
membersOf(code) == IF code.language = "ts" THEN code.instanceCode ELSE << >>

importsFor(code, model) ==
    { k \in DOMAIN importsOf(code) : importsOf(code)[k].import = model }

blockFor(code, model) ==
    { k \in DOMAIN membersOf(code) : membersOf(code)[k].model = model }

\* One import and one block for each distinct target model, those of its first
\* registration, and nothing else.
oneBlockPerTarget(code) ==
    /\ \A m \in targetModels :
           /\ Cardinality(importsFor(code, m)) = 1
           /\ \A k \in importsFor(code, m) : importsOf(code)[k].from = firstFor(m).fileName
           /\ Cardinality(blockFor(code, m)) = IF firstFor(m).manyToMany THEN 4 ELSE 1
    /\ Len(importsOf(code)) = Cardinality(targetModels)
    /\ \A k \in DOMAIN membersOf(code) : membersOf(code)[k].model \in targetModels

\* C11 as stated: the model file of any table holds one association block and
\* one import for each distinct target model registered for the table.
C11_Original_OneBlockPerTarget ==
    pc = "writeModel" => oneBlockPerTarget(pending.code)

\* C11, amended: with the TypeScript option the model file of a table holds one
\* import and one association block for each distinct target model registered
\* for the table, those of the first registration of the model, and a later
\* registration of a model already seen adds nothing; without the option the
\* model file holds no import and no association block at all.
C11_OneBlockPerTargetInTypeScript ==
    pc = "writeModel" =>
        IF program.typescript
        THEN pending.code.language = "ts" /\ oneBlockPerTarget(pending.code)
        ELSE /\ pending.code.language = "js"
             /\ DOMAIN pending.code
                    = {"language", "tableName", "className", "propDocs", "columns"}

\* C11 witness: post has two foreign keys to tags; its TypeScript model file is
\* built with one import and one member for Tags.
C11_Witness ==
    /\ pc = "writeModel"
    /\ program.typescript
    /\ theTable = Str_post
    /\ fkRows = << ForeignKeyRow(Str_post, Str_tags, NULL),
                   ForeignKeyRow(Str_post, Str_tags, NULL) >>
    /\ Len(registrations) = 2
    /\ Len(pending.code.includeCode) = 1
    /\ Len(pending.code.instanceCode) = 1

(***************************************************************************)
(* Properties of the order of a run (checked under Spec).                  *)
(***************************************************************************)
awaitingQuery == pc \in {"foreignKeyQuery", "allTablesQuery", "columnQuery"}
inTableLoop == pc \in {"loop", "columnQuery", "build", "writeModel"}

\* The files written after the relations file are the model files of the first
\* n tables of the table list, in its order.
modelFilesOfFirst(n) ==
    /\ Len(files) = n + 1
    /\ files[1].path = RelationsPath
    /\ \A k \in 1..n : files[k + 1].path = ModelPath(tables[k], program)

\* C12: at most one query is in flight, and only while generate() awaits it; the
\* tables are taken one at a time in the order of the table list: when the
\* column query of table i + 1 is in flight, the column queries of tables 1 .. i
\* have returned and their files, and no other, are written, and no write is
\* pending; the file being written is that of table i + 1.
C12_StrictlySequential ==
    /\ inFlight \in {0, 1}
    /\ inFlight = 1 <=> awaitingQuery
    /\ inTableLoop =>
           /\ i <= Len(tables)
           /\ modelFilesOfFirst(i)
           /\ Len(columnRows) = (IF pc \in {"build", "writeModel"} THEN i + 1 ELSE i)
           /\ pending.busy <=> pc = "writeModel"
           /\ pc = "writeModel" => pending.path = ModelPath(tables[i + 1], program)

\* C12 witness: the column query of the second table is in flight after the
\* file of the first table is written.
C12_Witness ==
    /\ pc = "columnQuery"
    /\ i = 1
    /\ inFlight = 1
    /\ Len(tables) >= 2
    /\ Len(files) = 2
    /\ files[2].path = ModelPath(tables[1], program)
    /\ ~pending.busy

(***************************************************************************)
(* Properties of the names of the models (checked under Spec).             *)
(***************************************************************************)
\* The model files written so far.
modelFiles == { k \in DOMAIN files : files[k].path # RelationsPath }

\* The names under which the association lookup refers to the model of `table`.
referringNames(table) ==
    UNION { { associations[t][j].model :
                j \in { n \in DOMAIN associations[t] : associations[t][n].fileName = table } } :
            t \in DOMAIN associations }

\* The names under which the import lines of the written files refer to it.
importedNames(table) ==
    UNION { { importsOf(files[k].code)[j].import :
                j \in { n \in DOMAIN importsOf(files[k].code) :
                          importsOf(files[k].code)[n].from = table } } :
            k \in modelFiles }

\* C13: every name under which the association lookup or an import line refers
\* to the model of a table is the class name of the model file of that table.
C13_NamesAgree ==
    \A k \in modelFiles :
        /\ \A name \in referringNames(files[k].code.tableName) :
               name = files[k].code.className
        /\ \A name \in importedNames(files[k].code.tableName) :
               name = files[k].code.className
=============================================================================
